---- MODULE Spec2Model ----
(***************************************************************************)
(* Model of the seeking agent of the SAM2 maze simulation                  *)
(* (components/simulation/Agent.tsx): the per-frame callback useFrame with *)
(* its three behaviour modes, the collision detector and the waypoint      *)
(* pathfinder.                                                             *)
(*                                                                         *)
(* Numbers are fixed point.  Lengths and speeds are in 1/1000 of a world   *)
(* unit (per second), angles and angular speeds in 1/1000 rad (per         *)
(* second), times in milliseconds.  A product of two scaled quantities is  *)
(* divided by 1000 and rounded to the nearest integer (RoundDiv).          *)
(***************************************************************************)
EXTENDS Integers, Sequences, FiniteSets, TLC

VARIABLES
    agent,          \* the refs of the Agent component, the pose of its group and the frame clock
    action,         \* prop `action` seen by the last frame
    targetPosition, \* prop `targetPosition` seen by the last frame (NULL or <<x, y, z>>)
    delta,          \* duration of the last frame
    ev,             \* which branches of useFrame the last frame executed
    hitClock,       \* history: simulated time since the last registered collision (NONE before the first)
    hitGap,         \* history: simulated time between the last two registered collisions (NONE before the second)
    above,          \* history: frames in a row that ended with the scan accumulator above 2 pi and activated nothing
    plan,           \* the command program the environment follows
    pc,             \* number of frames of the program already supplied
    free,           \* number of frames supplied with arbitrary inputs after leaving the program
    fpIn,           \* arguments of a stand-alone call of findPathThroughGap
    fpOut,          \* its result (<<>> before the call)
    app,            \* App.tsx: the state of the App component and its isProcessingRef
    inflight,       \* App.tsx: the promises and timers whose callbacks have not run yet
    appEv,          \* App.tsx: what the last handler of the App component did
    call            \* services: one call of getNavCommand or parseMission, its inputs and its result

vars == <<agent, action, targetPosition, delta, ev, hitClock, hitGap, above, plan, pc, free, fpIn, fpOut,
          app, inflight, appEv, call>>

NULL == <<>>
NONE == 0 - 1

\* no service call is being examined
NoCall == [fn |-> "none"]

-----------------------------------------------------------------------------
(* Arithmetic *)

Abs(x) == IF x < 0 THEN -x ELSE x

Min(a, b) == IF a < b THEN a ELSE b

Max(a, b) == IF a > b THEN a ELSE b

\* a / b for b > 0, rounded to the nearest integer, halves away from zero
RoundDiv(a, b) == IF a >= 0 THEN (2 * a + b) \div (2 * b) ELSE -((2 * (-a) + b) \div (2 * b))

\* Math.PI and its multiples, in 1/1000 rad
PI == 3142

TWO_PI == 6283

HALF_PI == 1571

\* THREE.MathUtils.lerp(x, y, t) = (1 - t) * x + t * y, with t given in 1/1000
lerp(x, y, t) == x + RoundDiv((y - x) * t, 1000)

\* THREE.MathUtils.clamp
clamp(x, lo, hi) == Max(lo, Min(hi, x))

\* floor of the square root, by bisection on [lo, hi]
RECURSIVE SqrtBetween(_, _, _)
SqrtBetween(n, lo, hi) ==
    IF lo >= hi THEN lo
    ELSE LET mid == (lo + hi + 1) \div 2
         IN  IF mid * mid <= n THEN SqrtBetween(n, mid, hi) ELSE SqrtBetween(n, lo, mid - 1)

\* Math.sqrt on squared distances of the maze (below 46340^2)
Sqrt(n) == SqrtBetween(n, 0, 46340)

\* sin on [0, pi/2]: x - x^3/3! + x^5/5! - x^7/7!
SinQuarter(x) ==
    LET x2 == RoundDiv(x * x, 1000)
        x3 == RoundDiv(x2 * x, 1000)
        x5 == RoundDiv(x3 * x2, 1000)
        x7 == RoundDiv(x5 * x2, 1000)
    IN  x - RoundDiv(x3, 6) + RoundDiv(x5, 120) - RoundDiv(x7, 5040)

\* Math.sin of an angle in 1/1000 rad, result in 1/1000
Sin(a) ==
    LET r == a % TWO_PI
    IN  IF r <= HALF_PI THEN SinQuarter(r)
        ELSE IF r <= PI THEN SinQuarter(PI - r)
        ELSE IF r <= PI + HALF_PI THEN -SinQuarter(r - PI)
        ELSE -SinQuarter(TWO_PI - r)

\* Math.cos
Cos(a) == Sin(a + HALF_PI)

\* atan on [0, 1] (q in 1/1000): q*pi/4 + q(1-q)(0.245 + 0.066q)
AtanUnit(q) ==
    RoundDiv(q * 785 + RoundDiv(q * (1000 - q) * (245 + RoundDiv(66 * q, 1000)), 1000), 1000)

\* Math.atan2(y, x), result in (-PI, PI]
Atan2(y, x) ==
    IF x = 0 /\ y = 0 THEN 0
    ELSE LET ay == Abs(y)
             ax == Abs(x)
             r0 == IF ay <= ax THEN AtanUnit(RoundDiv(ay * 1000, ax))
                   ELSE HALF_PI - AtanUnit(RoundDiv(ax * 1000, ay))
             r1 == IF x < 0 THEN PI - r0 ELSE r0
         IN  IF y < 0 THEN -r1 ELSE r1

-----------------------------------------------------------------------------
(* Constants of Agent.tsx *)

AGENT_RADIUS == 400

COLLISION_COOLDOWN_TIME == 1000

\* checkCollisions: wallSegmentHalfWidth, gapHalfWidth, boundary, wallThickness
wallSegmentHalfWidth == 8500

gapHalfWidth == 3000

boundary == 14000

wallThickness == 500

\* half thickness of the central wall as checkCollisions takes it (the literal 0.25)
wallHalfThickness == 250

\* findPathThroughGap: BOUNDARY
BOUNDARY == 12000

\* updateMovement: MAX_SPEED (normal, pathfinding), ROT_SPEED and the SCAN rate ROT_SPEED * 0.8 * 1.5
MAX_SPEED_NORMAL == 2500

MAX_SPEED_PATHFINDING == 7500

ROT_SPEED == 675

SCAN_ROT_SPEED == 810

\* followPath: waypoint radius and heading tolerance
WAYPOINT_RADIUS == 1000

ANGLE_TOLERANCE == 100

ActionType == {"IDLE", "FORWARD", "LEFT", "RIGHT", "STOP", "SCAN"}

-----------------------------------------------------------------------------
(* Collision detector *)

\* checkCollisions(agentPos, []) : the callers pass an empty target list
checkCollisions(x, z) ==
    LET leftWallCenterX  == -(wallSegmentHalfWidth + gapHalfWidth)
        rightWallCenterX == wallSegmentHalfWidth + gapHalfWidth
        nearCentralWall  == Abs(z - 0) < AGENT_RADIUS + wallHalfThickness
        edge             == AGENT_RADIUS + wallThickness \div 2
    IN  IF nearCentralWall /\ Abs(x - leftWallCenterX) < wallSegmentHalfWidth + AGENT_RADIUS THEN TRUE
        ELSE IF nearCentralWall /\ Abs(x - rightWallCenterX) < wallSegmentHalfWidth + AGENT_RADIUS THEN TRUE
        ELSE IF nearCentralWall /\ Abs(x) < gapHalfWidth THEN FALSE
        ELSE \/ Abs(z - boundary) < edge /\ Abs(x) < boundary
             \/ Abs(z + boundary) < edge /\ Abs(x) < boundary
             \/ Abs(x - boundary) < edge /\ Abs(z) < boundary
             \/ Abs(x + boundary) < edge /\ Abs(z) < boundary

-----------------------------------------------------------------------------
(* Waypoint pathfinder *)

determineAgentSide(agentZ) == IF agentZ >= 0 THEN "north" ELSE "south"

determineTargetSide(targetZ) == IF targetZ >= 0 THEN "north" ELSE "south"

\* findPathThroughGap with the last waypoint's x left unclamped (line 306 without Math.min/Math.max)
findPathThroughGapUnclamped(startX, startZ, targetSide) ==
    LET startSide == determineAgentSide(startZ)
        centreZ   == IF targetSide = "north" THEN Min(10000, BOUNDARY) ELSE Max(-10000, -BOUNDARY)
        alignZ    == IF startSide = "north" THEN 5000 ELSE -5000
        approachZ == IF startSide = "north" THEN 2000 ELSE -2000
        exitZ     == IF targetSide = "north" THEN 2000 ELSE -2000
        exploreZ  == IF targetSide = "north" THEN Min(8000, BOUNDARY) ELSE Max(-8000, -BOUNDARY)
        spreadZ   == IF targetSide = "north" THEN Min(10000, BOUNDARY) ELSE Max(-10000, -BOUNDARY)
    IN  IF startSide = targetSide
        THEN << <<startX, startZ>>, <<0, centreZ>> >>
        ELSE << <<startX, startZ>>, <<0, alignZ>>, <<0, approachZ>>, <<0, 0>>,
                <<0, exitZ>>, <<0, exploreZ>>, <<startX, spreadZ>> >>

findPathThroughGap(startX, startZ, targetSide) ==
    LET startSide == determineAgentSide(startZ)
        centreZ   == IF targetSide = "north" THEN Min(10000, BOUNDARY) ELSE Max(-10000, -BOUNDARY)
        alignZ    == IF startSide = "north" THEN 5000 ELSE -5000
        approachZ == IF startSide = "north" THEN 2000 ELSE -2000
        exitZ     == IF targetSide = "north" THEN 2000 ELSE -2000
        exploreZ  == IF targetSide = "north" THEN Min(8000, BOUNDARY) ELSE Max(-8000, -BOUNDARY)
        spreadX   == Min(Max(startX, -BOUNDARY), BOUNDARY)
        spreadZ   == IF targetSide = "north" THEN Min(10000, BOUNDARY) ELSE Max(-10000, -BOUNDARY)
    IN  IF startSide = targetSide
        THEN << <<startX, startZ>>, <<0, centreZ>> >>
        ELSE << <<startX, startZ>>, <<0, alignZ>>, <<0, approachZ>>, <<0, 0>>,
                <<0, exitZ>>, <<0, exploreZ>>, <<spreadX, spreadZ>> >>

calculateAngleToWaypoint(x, z, waypoint) == Atan2(waypoint[1] - x, waypoint[2] - z)

-----------------------------------------------------------------------------
(* The Agent component: state after construction *)

\* useRef initial values, the group at the origin with rotation 0, the clock at 0
AgentInit ==
    [ posX |-> 0, posZ |-> 0, rotY |-> 0,
      velocity |-> 0, rotationVelocity |-> 0,
      collisionDetected |-> FALSE, collisionCooldown |-> 0,
      useRearView |-> FALSE, viewSwitchCooldown |-> 0,
      explorationMode |-> FALSE, explorationStartTime |-> 0,
      lastRotationAngle |-> 0, totalRotation |-> 0, scanRotation |-> 0,
      explorationPhase |-> 0,
      pathfindingMode |-> FALSE, currentPath |-> <<>>, currentPathIndex |-> 0,
      elapsedTime |-> 0 ]

\* flipCommand: LEFT and RIGHT are swapped while the rear view is active
flipCommand(s, cmd) ==
    IF ~s.useRearView THEN cmd
    ELSE IF cmd = "LEFT" THEN "RIGHT"
    ELSE IF cmd = "RIGHT" THEN "LEFT"
    ELSE cmd

\* updateMovement(delta, effectiveAction, agentPos)
updateMovement(s, d, effectiveAction) ==
    LET MAX_SPEED == IF s.pathfindingMode THEN MAX_SPEED_PATHFINDING ELSE MAX_SPEED_NORMAL
        targetVel == IF effectiveAction = "FORWARD" THEN MAX_SPEED
                     ELSE IF effectiveAction \in {"LEFT", "RIGHT"} THEN RoundDiv(s.velocity, 2)
                     ELSE 0
        targetRot == IF effectiveAction = "LEFT" THEN ROT_SPEED
                     ELSE IF effectiveAction = "RIGHT" THEN -ROT_SPEED
                     ELSE IF effectiveAction = "SCAN" THEN SCAN_ROT_SPEED
                     ELSE 0
    IN  [s EXCEPT !.velocity = lerp(s.velocity, targetVel, d * 2),
                  !.rotationVelocity = lerp(s.rotationVelocity, targetRot, d * 4)]

\* the two "if" statements that fold an angle difference (useFrame 377-379, followPath 350-352)
normalizeDelta(rotationDelta) ==
    LET a == IF rotationDelta > PI THEN rotationDelta - TWO_PI ELSE rotationDelta
    IN  IF a < -PI THEN a + TWO_PI ELSE a

\* squared distance from the agent to a waypoint
DistSq(s, waypoint) ==
    (s.posX - waypoint[1]) * (s.posX - waypoint[1]) + (s.posZ - waypoint[2]) * (s.posZ - waypoint[2])

\* followPath advancing the waypoint index by two when a waypoint is reached
followPathSkipping(s) ==
    IF Len(s.currentPath) = 0 \/ s.currentPathIndex >= Len(s.currentPath)
    THEN [act |-> "STOP", st |-> [s EXCEPT !.pathfindingMode = FALSE]]
    ELSE LET reached == DistSq(s, s.currentPath[s.currentPathIndex + 1])
                            < WAYPOINT_RADIUS * WAYPOINT_RADIUS
             index   == IF reached THEN s.currentPathIndex + 2 ELSE s.currentPathIndex
         IN  IF index >= Len(s.currentPath)
             THEN [act |-> "STOP",
                   st  |-> [s EXCEPT !.currentPathIndex = index, !.pathfindingMode = FALSE]]
             ELSE [act |-> "FORWARD", st |-> [s EXCEPT !.currentPathIndex = index]]

\* followPath(agentPos, delta): the action it returns and the refs it updates
followPath(s) ==
    IF Len(s.currentPath) = 0 \/ s.currentPathIndex >= Len(s.currentPath)
    THEN [act |-> "STOP", st |-> [s EXCEPT !.pathfindingMode = FALSE]]
    ELSE LET currentWaypoint == s.currentPath[s.currentPathIndex + 1]
             reached   == DistSq(s, currentWaypoint) < WAYPOINT_RADIUS * WAYPOINT_RADIUS
             index     == IF reached THEN s.currentPathIndex + 1 ELSE s.currentPathIndex
             angleDiff == normalizeDelta(
                              calculateAngleToWaypoint(s.posX, s.posZ, currentWaypoint) - s.rotY)
         IN  IF index >= Len(s.currentPath)
             THEN [act |-> "STOP",
                   st  |-> [s EXCEPT !.currentPathIndex = index, !.pathfindingMode = FALSE]]
             ELSE [act |-> IF Abs(angleDiff) < ANGLE_TOLERANCE THEN "FORWARD"
                           ELSE IF angleDiff > 0 THEN "LEFT" ELSE "RIGHT",
                   st  |-> [s EXCEPT !.currentPathIndex = index]]

-----------------------------------------------------------------------------
(* useFrame, block by block *)

\* 373-381: rotation since the previous frame
normalizedDelta(s) == normalizeDelta(s.rotY - s.lastRotationAngle)

trackRotation(s) ==
    [s EXCEPT !.lastRotationAngle = s.rotY,
              !.totalRotation = @ + Abs(normalizedDelta(s))]

\* the activation condition without the test of the scan accumulator
shouldStartPathfindingAnyScan(s, tp) ==
    ~s.pathfindingMode /\ tp # NULL

\* the activation condition met by a scan accumulator of 2 pi exactly
shouldStartPathfindingFromTwoPi(s, tp) ==
    s.scanRotation >= TWO_PI /\ ~s.pathfindingMode /\ tp # NULL

\* 385: condition of the pathfinding activation
shouldStartPathfinding(s, tp) ==
    s.scanRotation > TWO_PI /\ ~s.pathfindingMode /\ tp # NULL

\* the activation without the reset of the scan accumulator (line 413)
startPathfindingKeepScan(s, tp) ==
    IF shouldStartPathfinding(s, tp)
    THEN LET currentAgentSide == determineAgentSide(s.posZ)
             oppositeSide     == IF currentAgentSide = "north" THEN "south" ELSE "north"
         IN  [s EXCEPT !.pathfindingMode = TRUE,
                       !.currentPath = findPathThroughGap(s.posX, s.posZ, oppositeSide),
                       !.currentPathIndex = 0,
                       !.useRearView = FALSE,
                       !.explorationMode = FALSE,
                       !.totalRotation = 0]
    ELSE s

\* the activation heading for the half the target is in
startPathfindingToTarget(s, tp) ==
    IF shouldStartPathfinding(s, tp)
    THEN [s EXCEPT !.pathfindingMode = TRUE,
                   !.currentPath = findPathThroughGap(s.posX, s.posZ, determineTargetSide(tp[3])),
                   !.currentPathIndex = 0,
                   !.useRearView = FALSE,
                   !.explorationMode = FALSE,
                   !.totalRotation = 0,
                   !.scanRotation = 0]
    ELSE s

\* 385-414: pathfinding activation
startPathfinding(s, tp) ==
    IF shouldStartPathfinding(s, tp)
    THEN LET currentAgentSide == determineAgentSide(s.posZ)
             oppositeSide     == IF currentAgentSide = "north" THEN "south" ELSE "north"
         IN  [s EXCEPT !.pathfindingMode = TRUE,
                       !.currentPath = findPathThroughGap(s.posX, s.posZ, oppositeSide),
                       !.currentPathIndex = 0,
                       !.useRearView = FALSE,
                       !.explorationMode = FALSE,
                       !.totalRotation = 0,
                       !.scanRotation = 0]
    ELSE s

\* 419: condition of the exploration activation
\* the activation condition asking for an assigned target
shouldStartExplorationWithTarget(s, tp) ==
    s.totalRotation > TWO_PI /\ ~s.explorationMode /\ tp # NULL

shouldStartExploration(s, tp) ==
    s.totalRotation > TWO_PI /\ ~s.explorationMode /\ tp = NULL

\* 419-425: exploration activation
startExploration(s, tp) ==
    IF shouldStartExploration(s, tp)
    THEN [s EXCEPT !.explorationMode = TRUE,
                   !.explorationStartTime = s.elapsedTime,
                   !.explorationPhase = 0,
                   !.totalRotation = 0]
    ELSE s

\* 462: the gate of both collision checks
cooldownOver(s) == s.collisionCooldown <= 0

\* 444: the waypoint the agent is heading for
currentWaypoint(s) == s.currentPath[s.currentPathIndex + 1]

\* 446-455: the step of length velocity * delta straight towards the waypoint, dist away
moveTowards(s, waypoint, dist, d) ==
    IF dist > 0
    THEN [s EXCEPT !.posX = @ + RoundDiv((waypoint[1] - s.posX) * RoundDiv(s.velocity * d, 1000), dist),
                   !.posZ = @ + RoundDiv((waypoint[2] - s.posZ) * RoundDiv(s.velocity * d, 1000), dist)]
    ELSE s

\* 457-459: the heading is set to face the waypoint
faceWaypoint(s, waypoint) ==
    [s EXCEPT !.rotY = calculateAngleToWaypoint(s.posX, s.posZ, waypoint)]

\* the collision check of waypoint following ending the traversal during the cooldown too
pathCollisionDuringCooldown(s) ==
    IF checkCollisions(s.posX, s.posZ)
    THEN [s EXCEPT !.collisionDetected = TRUE,
                   !.collisionCooldown = COLLISION_COOLDOWN_TIME,
                   !.pathfindingMode = FALSE,
                   !.velocity = 0,
                   !.rotationVelocity = 0]
    ELSE s

\* 461-473: collision check of a frame of waypoint following
pathCollision(s) ==
    IF cooldownOver(s)
    THEN IF checkCollisions(s.posX, s.posZ)
         THEN [s EXCEPT !.collisionDetected = TRUE,
                        !.collisionCooldown = COLLISION_COOLDOWN_TIME,
                        !.pathfindingMode = FALSE,
                        !.velocity = 0,
                        !.rotationVelocity = 0]
         ELSE [s EXCEPT !.collisionDetected = FALSE]
    ELSE s

\* 444-473: move, turn and collision check, after updateMovement
followWaypoint(m, d) ==
    pathCollision(
        faceWaypoint(
            moveTowards(m, currentWaypoint(m), Sqrt(DistSq(m, currentWaypoint(m))), d),
            currentWaypoint(m)))

\* a frame of waypoint following that checks for collisions before it moves
pathfindingStepCheckFirst(s, pathAction, d) ==
    LET m == pathCollision(updateMovement(s, d, flipCommand(s, pathAction)))
    IN  faceWaypoint(
            moveTowards(m, currentWaypoint(m), Sqrt(DistSq(m, currentWaypoint(m))), d),
            currentWaypoint(m))

\* 439-476: a frame of waypoint following (followPath has returned pathAction # STOP)
pathfindingStep(s, pathAction, d) ==
    followWaypoint(updateMovement(s, d, flipCommand(s, pathAction)), d)

\* 478-481: followPath returned STOP
pathCompleted(s) == [s EXCEPT !.pathfindingMode = FALSE, !.totalRotation = 0]

\* exploration whose forward phase lasts as long as its turn phase
explorationStepShortForward(s, tp) ==
    IF s.explorationMode /\ ~s.pathfindingMode
    THEN LET explorationTime == s.elapsedTime - s.explorationStartTime
             p == IF s.explorationPhase = 0
                  THEN [s EXCEPT !.velocity = 1500, !.rotationVelocity = 0,
                                 !.explorationPhase = IF explorationTime > 1200 THEN 1 ELSE 0,
                                 !.explorationStartTime =
                                     IF explorationTime > 1200 THEN s.elapsedTime ELSE @]
                  ELSE IF s.explorationPhase = 1
                  THEN [s EXCEPT !.rotationVelocity = 1000, !.velocity = 300,
                                 !.explorationPhase = IF explorationTime > 1200 THEN 0 ELSE 1,
                                 !.explorationStartTime =
                                     IF explorationTime > 1200 THEN s.elapsedTime ELSE @]
                  ELSE s
         IN  IF tp # NULL THEN [p EXCEPT !.explorationMode = FALSE] ELSE p
    ELSE s

\* 486-516: exploration
explorationStep(s, tp) ==
    IF s.explorationMode /\ ~s.pathfindingMode
    THEN LET explorationTime == s.elapsedTime - s.explorationStartTime
             p == IF s.explorationPhase = 0
                  THEN [s EXCEPT !.velocity = 1500, !.rotationVelocity = 0,
                                 !.explorationPhase = IF explorationTime > 3000 THEN 1 ELSE 0,
                                 !.explorationStartTime =
                                     IF explorationTime > 3000 THEN s.elapsedTime ELSE @]
                  ELSE IF s.explorationPhase = 1
                  THEN [s EXCEPT !.rotationVelocity = 1000, !.velocity = 300,
                                 !.explorationPhase = IF explorationTime > 1200 THEN 0 ELSE 1,
                                 !.explorationStartTime =
                                     IF explorationTime > 1200 THEN s.elapsedTime ELSE @]
                  ELSE s
         IN  IF tp # NULL THEN [p EXCEPT !.explorationMode = FALSE] ELSE p
    ELSE s

\* 519-524: cooldown timers
updateCooldowns(s, d) ==
    [s EXCEPT !.collisionCooldown = IF @ > 0 THEN @ - d ELSE @,
              !.viewSwitchCooldown = IF @ > 0 THEN @ - d ELSE @]

\* 527-540: collision check and rebound of a normal frame
\* the collision response with half the cooldown
collisionResponseHalfCooldown(s) ==
    IF cooldownOver(s)
    THEN IF checkCollisions(s.posX, s.posZ)
         THEN [s EXCEPT !.collisionDetected = TRUE,
                        !.collisionCooldown = COLLISION_COOLDOWN_TIME \div 2,
                        !.velocity = Min(2500, Abs(s.velocity) + 1500),
                        !.rotationVelocity = RoundDiv(@ * 3, 10)]
         ELSE [s EXCEPT !.collisionDetected = FALSE]
    ELSE s

\* the collision response switching to the rear cameras
collisionResponseSwitchView(s) ==
    IF cooldownOver(s)
    THEN IF checkCollisions(s.posX, s.posZ)
         THEN [s EXCEPT !.collisionDetected = TRUE,
                        !.collisionCooldown = COLLISION_COOLDOWN_TIME,
                        !.velocity = Min(2500, Abs(s.velocity) + 1500),
                        !.rotationVelocity = RoundDiv(@ * 3, 10),
                        !.useRearView = ~@]
         ELSE [s EXCEPT !.collisionDetected = FALSE]
    ELSE s

collisionResponse(s) ==
    IF cooldownOver(s)
    THEN IF checkCollisions(s.posX, s.posZ)
         THEN [s EXCEPT !.collisionDetected = TRUE,
                        !.collisionCooldown = COLLISION_COOLDOWN_TIME,
                        !.velocity = Min(2500, Abs(s.velocity) + 1500),
                        !.rotationVelocity = RoundDiv(@ * 3, 10)]
         ELSE [s EXCEPT !.collisionDetected = FALSE]
    ELSE s

\* the scan accumulation folded into [0, 2 pi)
accumulateScanWrapped(s, act, nd) ==
    IF act = "SCAN" THEN [s EXCEPT !.scanRotation = (@ + Abs(nd)) % TWO_PI]
    ELSE [s EXCEPT !.scanRotation = 0]

\* 546-551: scan accumulator
accumulateScan(s, act, nd) ==
    IF act = "SCAN" THEN [s EXCEPT !.scanRotation = @ + Abs(nd)]
    ELSE [s EXCEPT !.scanRotation = 0]

\* 557-566: rotation.y += w * delta, then translateZ along the rotated local z axis
applyMovement(s, d) ==
    LET rot  == s.rotY + RoundDiv(s.rotationVelocity * d, 1000)
        dz   == IF s.useRearView THEN RoundDiv(s.velocity * d, 1000)
                ELSE -RoundDiv(s.velocity * d, 1000)
    IN  [s EXCEPT !.rotY = rot,
                  !.posX = @ + RoundDiv(dz * Sin(rot), 1000),
                  !.posZ = @ + RoundDiv(dz * Cos(rot), 1000)]

\* 569-582: soft boundary clamp
softBoundary(s) ==
    LET limit == boundary - AGENT_RADIUS
        cx == IF Abs(s.posX) > limit
              THEN [s EXCEPT !.posX = clamp(s.posX, -limit, limit),
                             !.velocity = RoundDiv(@, 2),
                             !.rotationVelocity = @ + (IF clamp(s.posX, -limit, limit) > 0 THEN 500 ELSE -500)]
              ELSE s
    IN  IF Abs(cx.posZ) > limit
        THEN [cx EXCEPT !.posZ = clamp(cx.posZ, -limit, limit),
                        !.velocity = RoundDiv(@, 2),
                        !.rotationVelocity = @ + (IF clamp(cx.posZ, -limit, limit) > 0 THEN 500 ELSE -500)]
        ELSE cx

\* 485-582: the part of a frame that is not waypoint following
normalStep(s, act, tp, d, nd) ==
    softBoundary(
        applyMovement(
            updateMovement(
                accumulateScan(
                    collisionResponse(updateCooldowns(explorationStep(s, tp), d)),
                    act, nd),
                d, flipCommand(s, act)),
            d))

-----------------------------------------------------------------------------
(* App.tsx: the simulation switch, the vision requests and the mission     *)
(* steps.  Confidences are in 1/1000.  The log, the camera previews,       *)
(* visionData and the id of a mission are written by the handlers and read *)
(* by none of them; they are left out.                                     *)

TARGET_OPTIONS == <<"Red Cube", "Pink Sphere", "Green Cone", "Yellow Cylinder", "Skeleton Head">>

\* a STOP result counts as target reached above this confidence
CONFIDENCE_THRESHOLD == 800

\* currentMission === null
NoMission == [steps |-> <<>>, current_step |-> 0, status |-> "null"]

\* the useState and useRef initial values of App
AppInit ==
    [selectedTarget |-> TARGET_OPTIONS[1], isRunning |-> FALSE, agentAction |-> "IDLE",
     currentMission |-> NoMission, isProcessingMission |-> FALSE, isProcessingRef |-> FALSE]

\* requests: closures of handleVisionCapture awaiting getNavCommand;
\* timers: closures of handleNextStep waiting in setTimeout, oldest first;
\* parses: closures of handleMissionSubmit awaiting parseMission
NothingInFlight == [requests |-> <<>>, timers |-> <<>>, parses |-> <<>>]

\* what a callback created by the render of state a sees of that state
Closure(a) == [isRunning |-> a.isRunning, selectedTarget |-> a.selectedTarget, currentMission |-> a.currentMission]

NoResult == [action |-> "IDLE", targetVisible |-> FALSE, confidence |-> NONE, distance |-> "undefined"]

\* what the properties need of the state a handler started in
Before(a, f) ==
    [isRunning |-> a.isRunning, isProcessingRef |-> a.isProcessingRef, agentAction |-> a.agentAction,
     requests |-> Len(f.requests), timers |-> Len(f.timers)]

NoAppEvent ==
    [op |-> "none", started |-> FALSE, stale |-> FALSE, scheduled |-> FALSE,
     result |-> NoResult, seen |-> Closure(AppInit), before |-> Before(AppInit, NothingInFlight)]

\* number of step advances that may wait in setTimeout at once
MaxTimers == 1

\* the responses getNavCommand may resolve to: well-formed ones, and one whose
\* distance is a string instead of a number
Confidences == {NONE, 500, 700, 800, 850}

Results ==
    [action : {"STOP", "FORWARD"}, targetVisible : BOOLEAN, confidence : Confidences, distance : {"number"}]
    \cup {[action |-> "STOP", targetVisible |-> TRUE, confidence |-> 850, distance |-> "string"]}

\* the step lists parseMission may return
StepLists == {<<"Red Cube">>, <<"Green Cone", "Red Cube">>}

\* the handlers of App leave the Agent component alone
AgentIdle ==
    UNCHANGED <<agent, action, targetPosition, delta, ev, hitClock, hitGap, above, plan, pc, free, fpIn, fpOut, call>>

Without(q, i) == [j \in 1..(Len(q) - 1) |-> IF j < i THEN q[j] ELSE q[j + 1]]

\* handleVisionCapture line 65: the call goes on to issue a request
captureStartsWhileRunning(a) == a.isRunning

captureStarts(a) == ~(a.isProcessingRef \/ ~a.isRunning)

\* handleVisionCapture up to its await
handleVisionCapture ==
    \E starts \in {captureStarts(app)} :
        /\ app' = IF starts THEN [app EXCEPT !.isProcessingRef = TRUE] ELSE app
        /\ inflight' = IF starts THEN [inflight EXCEPT !.requests = Append(@, Closure(app))] ELSE inflight
        /\ appEv' = [NoAppEvent EXCEPT !.op = "capture", !.started = starts, !.before = Before(app, inflight)]
        /\ AgentIdle

\* result.distance.toFixed(1) of line 79 throws on a value that is not a number
loggingThrows(r) == r.distance = "string"

\* line 85
targetReachedAtThreshold(r) ==
    r.action = "STOP" /\ r.targetVisible /\ r.confidence # NONE /\ r.confidence # 0 /\ r.confidence >= CONFIDENCE_THRESHOLD

targetReached(r) ==
    r.action = "STOP" /\ r.targetVisible /\ r.confidence # NONE /\ r.confidence # 0 /\ r.confidence > CONFIDENCE_THRESHOLD

\* currentMission.steps[currentMission.current_step], "undefined" past the end
currentStepTarget(m) == IF m.current_step < Len(m.steps) THEN m.steps[m.current_step + 1] ELSE "undefined"

\* lines 85-96: the result schedules handleNextStep
schedulesAdvance(c, r) ==
    /\ ~loggingThrows(r)
    /\ targetReached(r)
    /\ c.currentMission.status # "null"
    /\ currentStepTarget(c.currentMission) # "undefined"
    /\ currentStepTarget(c.currentMission) = c.selectedTarget

\* lines 97-101: single target mode, the result stops the simulation
stopsSearch(c, r) == ~loggingThrows(r) /\ targetReached(r) /\ c.currentMission.status = "null"

\* the state is no longer the one the request was issued in
stale(c, a) == ~a.isRunning \/ a.currentMission # c.currentMission \/ a.selectedTarget # c.selectedTarget

\* applyResult with the flag reset at the end of try instead of in finally
applyResultResetInTry(a, c, r) ==
    [a EXCEPT !.agentAction = IF loggingThrows(r) THEN "SCAN" ELSE r.action,
              !.isRunning = IF stopsSearch(c, r) THEN FALSE ELSE @,
              !.isProcessingRef = IF loggingThrows(r) THEN @ ELSE FALSE]

\* handleVisionCapture from the resolution of getNavCommand to the end of finally
applyResult(a, c, r) ==
    [a EXCEPT !.agentAction = IF loggingThrows(r) THEN "SCAN" ELSE r.action,
              !.isRunning = IF stopsSearch(c, r) THEN FALSE ELSE @,
              !.isProcessingRef = FALSE]

resolveVision ==
    \E i \in 1..Len(inflight.requests) : \E r \in Results :
    \E c \in {inflight.requests[i]} :
        /\ schedulesAdvance(c, r) => Len(inflight.timers) < MaxTimers
        /\ app' = applyResult(app, c, r)
        /\ inflight' = [inflight EXCEPT !.requests = Without(@, i),
                                        !.timers = IF schedulesAdvance(c, r) THEN Append(@, c) ELSE @]
        /\ appEv' = [op |-> "resolve", started |-> FALSE, stale |-> stale(c, app),
                     scheduled |-> schedulesAdvance(c, r), result |-> r, seen |-> c, before |-> Before(app, inflight)]
        /\ AgentIdle

\* handleNextStep as created by the render that saw mission m
handleNextStepSkipping(a, m) ==
    IF m.status = "null" THEN a
    ELSE [a EXCEPT !.currentMission = [m EXCEPT !.current_step = Len(m.steps) - 1, !.status = "active"],
                   !.selectedTarget = m.steps[Len(m.steps)]]

\* handleNextStep without the test of the number of steps
handleNextStepPastEnd(a, m) ==
    IF m.status = "null" THEN a
    ELSE [a EXCEPT !.currentMission = [m EXCEPT !.current_step = m.current_step + 1, !.status = "active"],
                   !.selectedTarget = IF m.current_step + 1 < Len(m.steps)
                                      THEN m.steps[m.current_step + 2] ELSE @]

handleNextStep(a, m) ==
    IF m.status = "null" THEN a
    ELSE IF m.current_step + 1 < Len(m.steps)
         THEN [a EXCEPT !.currentMission = [m EXCEPT !.current_step = m.current_step + 1, !.status = "active"],
                        !.selectedTarget = m.steps[m.current_step + 2]]
         ELSE [a EXCEPT !.currentMission = [m EXCEPT !.status = "completed"],
                        !.isRunning = FALSE]

\* the timer of line 92 expires
advanceTimer ==
    /\ Len(inflight.timers) > 0
    /\ \E c \in {inflight.timers[1]} :
        /\ app' = handleNextStep(app, c.currentMission)
        /\ inflight' = [inflight EXCEPT !.timers = Tail(@)]
        /\ appEv' = [NoAppEvent EXCEPT !.op = "advance", !.stale = stale(c, app), !.seen = c, !.before = Before(app, inflight)]
        /\ AgentIdle

toggleSimulation ==
    /\ app' = IF ~app.isRunning
              THEN [app EXCEPT !.isRunning = TRUE, !.agentAction = "IDLE"]
              ELSE [app EXCEPT !.isRunning = FALSE, !.agentAction = "IDLE"]
    /\ inflight' = inflight
    /\ appEv' = [NoAppEvent EXCEPT !.op = "toggle"]
    /\ AgentIdle

\* handleMissionSubmit up to its await, with a non-blank missionInput
handleMissionSubmit ==
    \E starts \in {~app.isProcessingMission} :
        /\ app' = IF starts THEN [app EXCEPT !.isProcessingMission = TRUE] ELSE app
        /\ inflight' = IF starts THEN [inflight EXCEPT !.parses = Append(@, Closure(app))] ELSE inflight
        /\ appEv' = [NoAppEvent EXCEPT !.op = "submit", !.started = starts]
        /\ AgentIdle

\* handleMissionSubmit after parseMission resolved to a mission with these steps
\* (no steps: the mission of status help)
applyMission(a, c, steps) ==
    IF steps = <<>>
    THEN [a EXCEPT !.currentMission = NoMission, !.isProcessingMission = FALSE]
    ELSE [a EXCEPT !.currentMission = [steps |-> steps, current_step |-> 0, status |-> "pending"],
                   !.selectedTarget = steps[1],
                   !.isRunning = IF ~c.isRunning THEN TRUE ELSE @,
                   !.agentAction = IF ~c.isRunning THEN "IDLE" ELSE @,
                   !.isProcessingMission = FALSE]

\* parseMission resolves to a mission with one of these lists of steps
resolveMissionTo(lists) ==
    /\ Len(inflight.parses) > 0
    /\ \E steps \in lists : \E c \in {inflight.parses[1]} :
        /\ app' = applyMission(app, c, steps)
        /\ inflight' = [inflight EXCEPT !.parses = Tail(@)]
        /\ appEv' = [NoAppEvent EXCEPT !.op = "parsed"]
        /\ AgentIdle

resolveMission == resolveMissionTo(StepLists \cup {<<>>})

-----------------------------------------------------------------------------
(* Environment: the props and frame durations supplied to the component *)

\* positions of two of the targets of SimulationWorld: Red Cube (north half), Green Cone (south half)
RedCube == <<5000, 500, 5000>>

GreenCone == <<2000, 500, -6000>>

TargetPositions == {NULL, RedCube, GreenCone}

\* frame durations: 8 and 4 frames per second
Deltas == {125, 250}

\* number of frames with arbitrary inputs that may follow a command program
MaxFree == 1

Rep(x, n) == [i \in 1..n |-> x]

In(a, tp, d) == [action |-> a, targetPosition |-> tp, delta |-> d]

\* Command programs, one input per frame.
\*  1: SCAN with a target assigned until the scan accumulator passes 2 pi, pathfinding from the origin
\*  2: turn, drive, then SCAN with a target assigned: pathfinding from the north half
\*  3: no target: turn towards the west wall segment, drive into it, turn on
\*  4: no target: turn, drive, then SCAN: exploration next to the west wall segment
\*  5: as 2 up to the traversal, during which the target is removed for one frame and assigned again
\*  6: SCAN with a target assigned at frame times that bring the scan accumulator to 2 pi exactly
\*  7: no target: drive south into the boundary wall, turn on
Plans ==
    << Rep(In("SCAN", RedCube, 250), 46),
       Rep(In("LEFT", GreenCone, 250), 18) \o Rep(In("FORWARD", GreenCone, 250), 3)
           \o Rep(In("SCAN", GreenCone, 250), 44),
       Rep(In("LEFT", NULL, 250), 9) \o Rep(In("FORWARD", NULL, 250), 8)
           \o Rep(In("LEFT", NULL, 250), 3),
       Rep(In("LEFT", NULL, 250), 9) \o Rep(In("FORWARD", NULL, 250), 2)
           \o Rep(In("SCAN", NULL, 250), 39),
       Rep(In("LEFT", GreenCone, 250), 18) \o Rep(In("FORWARD", GreenCone, 250), 3)
           \o Rep(In("SCAN", GreenCone, 250), 36) \o <<In("IDLE", NULL, 125)>>
           \o Rep(In("SCAN", GreenCone, 250), 4),
       <<In("SCAN", RedCube, 250)>> \o Rep(In("SCAN", RedCube, 125), 14)
           \o <<In("SCAN", RedCube, 250)>> \o Rep(In("SCAN", RedCube, 125), 6)
           \o Rep(In("SCAN", RedCube, 250), 19) \o <<In("SCAN", RedCube, 125)>>
           \o Rep(In("SCAN", RedCube, 250), 3),
       Rep(In("FORWARD", NULL, 250), 30) \o Rep(In("LEFT", NULL, 250), 4) >>

NoEvents ==
    [kind |-> "none", activated |-> FALSE, explored |-> FALSE,
     completed |-> FALSE, registered |-> FALSE]

\* useFrame((state, delta) => ...): one frame with the props act, tp and the duration d.
\* Each block of the callback is evaluated once and bound: tracked (373-381), s1 (385-414),
\* s2 (419-425), fp (434), s3 (439-482), checked (the refs the collision gate reads).
useFrame(act, tp, d) ==
    \E tracked \in {trackRotation([agent EXCEPT !.elapsedTime = @ + d])} :
    \E s1 \in {startPathfinding(tracked, tp)} :
    \E s2 \in {startExploration(s1, tp)} :
    \E fp \in {followPath(s2)} :
    \E following \in {s2.pathfindingMode /\ fp.act # "STOP"} :
    \E completed \in {s2.pathfindingMode /\ fp.act = "STOP"} :
    \E s3 \in {IF following THEN pathfindingStep(fp.st, fp.act, d)
               ELSE IF completed THEN pathCompleted(fp.st)
               ELSE s2} :
    \E checked \in {IF following THEN fp.st ELSE updateCooldowns(explorationStep(s3, tp), d)} :
    \E registered \in {cooldownOver(checked) /\ checkCollisions(s3.posX, s3.posZ)} :
    \E final \in {IF following THEN s3
                  ELSE normalStep(s3, act, tp, d, normalizedDelta(agent))} :
        /\ agent' = final
        /\ action' = act
        /\ targetPosition' = tp
        /\ delta' = d
        /\ ev' = [kind       |-> IF following THEN "path" ELSE "normal",
                  activated  |-> shouldStartPathfinding(tracked, tp),
                  explored   |-> shouldStartExploration(s1, tp),
                  completed  |-> completed,
                  registered |-> registered]
        /\ hitClock' = IF registered THEN 0
                       ELSE IF hitClock = NONE THEN NONE ELSE hitClock + d
        /\ hitGap' = IF registered /\ hitClock # NONE THEN hitClock + d ELSE hitGap
        /\ above' = IF final.scanRotation > TWO_PI /\ ~shouldStartPathfinding(tracked, tp)
                        /\ ~shouldStartExploration(s1, tp)
                     THEN Min(above + 1, 3) ELSE 0
        /\ UNCHANGED <<plan, fpIn, fpOut, app, inflight, appEv, call>>

\* a frame whose inputs are the next ones of the command program
PlanTick ==
    /\ plan \in 1..Len(Plans)
    /\ free = 0
    /\ pc < Len(Plans[plan])
    /\ useFrame(Plans[plan][pc + 1].action, Plans[plan][pc + 1].targetPosition, Plans[plan][pc + 1].delta)
    /\ pc' = pc + 1
    /\ free' = free

\* a frame with arbitrary inputs
FreeTick ==
    /\ plan \in 1..Len(Plans)
    /\ free < MaxFree
    /\ \E a \in ActionType, tp \in TargetPositions, d \in Deltas : useFrame(a, tp, d)
    /\ free' = free + 1
    /\ pc' = pc

Init ==
    /\ agent = AgentInit
    /\ action = "IDLE"
    /\ targetPosition = RedCube
    /\ delta = 0
    /\ ev = NoEvents
    /\ hitClock = NONE
    /\ hitGap = NONE
    /\ above = 0
    /\ plan \in 1..Len(Plans)
    /\ pc = 0
    /\ free = 0
    /\ fpIn = [startX |-> 0, startZ |-> 0, targetSide |-> "south"]
    /\ fpOut = <<>>
    /\ app = AppInit /\ inflight = NothingInFlight /\ appEv = NoAppEvent
    /\ call = NoCall

Next == PlanTick \/ FreeTick

Spec == Init /\ [][Next]_vars

-----------------------------------------------------------------------------
(* findPathThroughGap on its own *)

\* coordinates around every threshold of the maze: the wall band (650), the solid
\* segments (2600), the gap (3000), the safe boundary (12000) and the clamp (13600)
Coords ==
    {-13600, -12001, -12000, -8000, -3000, -2601, -2600, -650, -649, -1, 0,
     1, 649, 650, 2600, 2601, 3000, 8000, 12000, 12001, 13600}

InitPath ==
    /\ agent = AgentInit
    /\ action = "IDLE"
    /\ targetPosition = RedCube
    /\ delta = 0
    /\ ev = NoEvents
    /\ hitClock = NONE
    /\ hitGap = NONE
    /\ above = 0
    /\ plan = 0
    /\ pc = 0
    /\ free = 0
    /\ fpIn \in [startX : Coords, startZ : Coords, targetSide : {"north", "south"}]
    /\ fpOut = <<>>
    /\ app = AppInit /\ inflight = NothingInFlight /\ appEv = NoAppEvent
    /\ call = NoCall

CallFindPath ==
    /\ fpOut = <<>>
    /\ fpOut' = findPathThroughGap(fpIn.startX, fpIn.startZ, fpIn.targetSide)
    /\ UNCHANGED <<agent, action, targetPosition, delta, ev, hitClock, hitGap, above, plan, pc, free, fpIn,
                   app, inflight, appEv, call>>

NextPath == CallFindPath

SpecPath == InitPath /\ [][NextPath]_vars

-----------------------------------------------------------------------------
(* services/sam2.ts: getNavCommand.  A fetch either rejects (network       *)
(* error), or yields a response that is not ok, or an ok response whose    *)
(* body is not JSON (json() rejects), is the JSON value null (reading      *)
(* data.action throws), or is a JSON object, whose fields are copied.      *)

\* the outcomes of one fetch to the vision backend
FetchFailures ==
    [kind : {"network"}, message : {"Failed to fetch", "Load failed"}]
    \cup [kind : {"status", "notjson", "null"}, message : {""}]

\* ok responses with a JSON object; "undefined" marks a field the object lacks
FetchObjects ==
    [kind : {"object"}, action : {"undefined", "STOP", "FORWARD", "SCAN"},
     reasoning : {"undefined", "text"}, targetVisible : {"undefined", "true", "false"}]

FetchOutcomes == FetchFailures \cup FetchObjects

\* the copy of the fields of data into the VisionResponse
responseOf(o) == [action |-> o.action, reasoning |-> o.reasoning, targetVisible |-> o.targetVisible]

\* the catch block of getMonocularNavCommand
scanFallback(o) ==
    [action |-> "SCAN",
     reasoning |-> IF o.kind = "network" /\ o.message = "Failed to fetch"
                   THEN "SAM2 backend not running. Please start the Python backend server."
                   ELSE "SAM2 backend unavailable. Falling back to scan mode.",
     targetVisible |-> "false"]

\* getNavCommand of services/sam2.ts with one endpoint, and the monocular
\* fallback of the stereo version
getMonocularNavCommand(o) == IF o.kind = "object" THEN responseOf(o) ELSE scanFallback(o)

\* getNavCommand, stereo endpoint first
getNavCommand(stereo, mono) == IF stereo.kind = "object" THEN responseOf(stereo) ELSE getMonocularNavCommand(mono)

\* the endpoint did not deliver a navigation command: no response, or a body
\* without a valid action
FetchFailed(o) == o.kind # "object" \/ o.action = "undefined"

\* a call that has not resolved yet
NoResponse == [action |-> "none", reasoning |-> "none", targetVisible |-> "none"]

VisionCalls ==
    [fn : {"getNavCommand"}, stereo : FetchOutcomes, mono : FetchOutcomes, done : {FALSE}, out : {NoResponse}]

resolveNavCommand ==
    /\ call.fn = "getNavCommand" /\ ~call.done
    /\ call' = [call EXCEPT !.done = TRUE, !.out = getNavCommand(call.stereo, call.mono)]
    /\ UNCHANGED <<agent, action, targetPosition, delta, ev, hitClock, hitGap, above, plan, pc, free, fpIn, fpOut,
                   app, inflight, appEv>>

-----------------------------------------------------------------------------
(* services/llm.ts: parseMission and its keyword fallback.  A mission text *)
(* is a set of words; KeywordsIn gives, for each word, the keywords that   *)
(* its lower-case form contains.                                           *)

Words == {"go", "Cube", "hundred", "cone", "PINK", "skull", "wall"}

KeywordsIn ==
    [w \in Words |->
        CASE w = "Cube" -> {"cube"}
          [] w = "hundred" -> {"red"}
          [] w = "cone" -> {"cone"}
          [] w = "PINK" -> {"pink"}
          [] w = "skull" -> {"skull"}
          [] OTHER -> {}]

\* missionText.toLowerCase().includes(keyword)
includes(text, keyword) == \E w \in text : keyword \in KeywordsIn[w]

\* target.toLowerCase().split(' ')[0]
firstWord(target) ==
    CASE target = "Red Cube" -> "red"
      [] target = "Pink Sphere" -> "pink"
      [] target = "Green Cone" -> "green"
      [] target = "Yellow Cylinder" -> "yellow"
      [] target = "Skeleton Head" -> "skeleton"

\* the five keyword tests of fallbackParseMission, in the order of the code
keywordSteps(text) ==
    (IF includes(text, "sphere") \/ includes(text, "pink") THEN <<"Pink Sphere">> ELSE <<>>)
    \o (IF includes(text, "cube") \/ includes(text, "red") \/ includes(text, "square") THEN <<"Red Cube">> ELSE <<>>)
    \o (IF includes(text, "cone") \/ includes(text, "green") THEN <<"Green Cone">> ELSE <<>>)
    \o (IF includes(text, "cylinder") \/ includes(text, "yellow") THEN <<"Yellow Cylinder">> ELSE <<>>)
    \o (IF includes(text, "skeleton") \/ includes(text, "skull") \/ includes(text, "head") \/ includes(text, "bone")
        THEN <<"Skeleton Head">> ELSE <<>>)

\* the loop over availableTargets: the first target whose first word the text contains
mentioned(text, availableTargets) ==
    {i \in 1..Len(availableTargets) : includes(text, firstWord(availableTargets[i]))}

firstMentioned(text, availableTargets) ==
    IF mentioned(text, availableTargets) = {} THEN <<>>
    ELSE <<availableTargets[CHOOSE i \in mentioned(text, availableTargets) :
                                \A j \in mentioned(text, availableTargets) : i <= j]>>

\* the default of the fallback when nothing matched
defaultStepsAll(availableTargets) == availableTargets

defaultSteps(availableTargets) == IF Len(availableTargets) > 0 THEN <<availableTargets[1]>> ELSE <<>>

fallbackSteps(text, availableTargets) ==
    IF keywordSteps(text) # <<>> THEN keywordSteps(text)
    ELSE IF firstMentioned(text, availableTargets) # <<>> THEN firstMentioned(text, availableTargets)
    ELSE defaultSteps(availableTargets)

fallbackParseMission(text, availableTargets) ==
    [steps |-> fallbackSteps(text, availableTargets), current_step |-> 0, status |-> "pending", rejected |-> FALSE]

\* the outcomes of the request to the chat completion endpoint: the fetch
\* rejects, the status is not ok, the body is not JSON, the body has neither
\* choices nor content, the content is not JSON, the parsed content has a
\* targets value that is not an array, or it has an array of targets, whose
\* strings are whatever the model answered
LLMFailures == {"network", "status", "notjson", "format", "unparseable", "notarray"}

LLMOutcomes ==
    [kind : LLMFailures, targets : {<<>>}]
    \cup [kind : {"targets"}, targets : {<<>>, <<"Pink Sphere">>, <<"Green Cone", "Red Cube">>, <<"Blue Sphere">>}]

parseMission(text, availableTargets, llm) ==
    IF llm.kind # "targets" THEN fallbackParseMission(text, availableTargets)
    ELSE IF Len(llm.targets) = 0
         THEN [steps |-> <<>>, current_step |-> 0, status |-> "help", rejected |-> FALSE]
         ELSE [steps |-> llm.targets, current_step |-> 0, status |-> "pending", rejected |-> FALSE]

Texts == {t \in SUBSET Words : Cardinality(t) <= 2}

TargetLists == {<<>>, TARGET_OPTIONS, <<"Green Cone", "Red Cube">>}

NoParsedMission == [steps |-> <<>>, current_step |-> 0, status |-> "none", rejected |-> FALSE]

MissionCalls ==
    [fn : {"parseMission"}, text : Texts, availableTargets : TargetLists, llm : LLMOutcomes,
     done : {FALSE}, out : {NoParsedMission}]

resolveParseMission ==
    /\ call.fn = "parseMission" /\ ~call.done
    /\ call' = [call EXCEPT !.done = TRUE, !.out = parseMission(call.text, call.availableTargets, call.llm)]
    /\ UNCHANGED <<agent, action, targetPosition, delta, ev, hitClock, hitGap, above, plan, pc, free, fpIn, fpOut,
                   app, inflight, appEv>>

-----------------------------------------------------------------------------
(* The two services on their own *)

InitServices ==
    /\ agent = AgentInit /\ action = "IDLE" /\ targetPosition = NULL /\ delta = 0
    /\ ev = NoEvents /\ hitClock = NONE /\ hitGap = NONE /\ above = 0
    /\ plan = 0 /\ pc = 0 /\ free = 0
    /\ fpIn = [startX |-> 0, startZ |-> 0, targetSide |-> "south"] /\ fpOut = <<>>
    /\ app = AppInit /\ inflight = NothingInFlight /\ appEv = NoAppEvent
    /\ call \in VisionCalls \cup MissionCalls

NextServices == resolveNavCommand \/ resolveParseMission

SpecServices == InitServices /\ [][NextServices]_vars

-----------------------------------------------------------------------------
(* The App component on its own *)

InitApp ==
    /\ agent = AgentInit /\ action = "IDLE" /\ targetPosition = NULL /\ delta = 0
    /\ ev = NoEvents /\ hitClock = NONE /\ hitGap = NONE /\ above = 0
    /\ plan = 0 /\ pc = 0 /\ free = 0
    /\ fpIn = [startX |-> 0, startZ |-> 0, targetSide |-> "south"] /\ fpOut = <<>>
    /\ app = AppInit /\ inflight = NothingInFlight /\ appEv = NoAppEvent
    /\ call = NoCall

NextApp ==
    \/ handleVisionCapture
    \/ resolveVision
    \/ advanceTimer
    \/ toggleSimulation
    \/ handleMissionSubmit
    \/ resolveMission

SpecApp == InitApp /\ [][NextApp]_vars

-----------------------------------------------------------------------------
(* The App component with one mission: a mission is submitted only while   *)
(* there is none, and from then on vision results, advance timers and      *)
(* start/stop clicks interleave.                                           *)

\* the step lists of the one mission, up to three steps
LongStepLists == StepLists \cup {<<"Green Cone", "Red Cube", "Pink Sphere">>}

\* Send is clicked while there is no mission
submitFirstMission == app.currentMission.status = "null" /\ handleMissionSubmit

NextMission ==
    \/ handleVisionCapture
    \/ resolveVision
    \/ advanceTimer
    \/ toggleSimulation
    \/ submitFirstMission
    \/ resolveMissionTo(LongStepLists \cup {<<>>})

SpecMission == InitApp /\ [][NextMission]_vars

\* getNavCommand settles: each of its fetches ends with a response or a
\* rejection, and every failure ends in the catch block of part_003, so the
\* continuation of a started handleVisionCapture is eventually run
SpecMissionFair == InitApp /\ [][NextMission]_vars /\ WF_inflight(resolveVision)

-----------------------------------------------------------------------------
(* A continuous stream of SCAN commands with no target assigned.  The      *)
(* render loop calls the frame callback on every animation frame, so a     *)
(* frame that can be taken is eventually taken.  pc counts the frames, free *)
(* the frames taken in Exploring mode.                                      *)

\* number of frames followed after Exploring mode has activated
MaxExploring == 2

InitScan ==
    /\ agent = AgentInit /\ action = "IDLE" /\ targetPosition = NULL /\ delta = 0
    /\ ev = NoEvents /\ hitClock = NONE /\ hitGap = NONE /\ above = 0
    /\ plan = 0 /\ pc = 0 /\ free = 0
    /\ fpIn = [startX |-> 0, startZ |-> 0, targetSide |-> "south"] /\ fpOut = <<>>
    /\ app = AppInit /\ inflight = NothingInFlight /\ appEv = NoAppEvent
    /\ call = NoCall

ScanTick ==
    /\ free < MaxExploring
    /\ \E d \in Deltas : useFrame("SCAN", NULL, d)
    /\ pc' = pc + 1
    /\ free' = IF agent.explorationMode THEN free + 1 ELSE free

NextScan == ScanTick

\* ScanTick as seen on the frame counter: useFrame is total, so ScanTick is
\* enabled exactly when free < MaxExploring, and its steps are the steps that
\* count a frame
FrameTaken == free < MaxExploring /\ pc' = pc + 1

SpecScan == InitScan /\ [][NextScan]_vars /\ WF_pc(FrameTaken)

-----------------------------------------------------------------------------
(* The STOP command held over a run of frames, on updateMovement alone.    *)
(* useFrame passes the render clock's frame time to updateMovement without *)
(* clamping it, so a run is taken at each of a few frame times, among them *)
(* a stalled render loop of 0.75 s per frame.  The loop calls the callback *)
(* on every animation frame.                                               *)

\* frame times of a run, in ms
StopDeltas == {125, 250, 500, 750}

\* forward velocities a run starts from, up to the pathfinding top speed
StopVelocities == {v \in 0..MAX_SPEED_PATHFINDING : v % 250 = 0}

InitStop ==
    /\ agent \in {[AgentInit EXCEPT !.velocity = v] : v \in StopVelocities}
    /\ action = "STOP" /\ targetPosition = NULL /\ delta \in StopDeltas
    /\ ev = NoEvents /\ hitClock = NONE /\ hitGap = NONE /\ above = 0
    /\ plan = 0 /\ pc = 0 /\ free = 0
    /\ fpIn = [startX |-> 0, startZ |-> 0, targetSide |-> "south"] /\ fpOut = <<>>
    /\ app = AppInit /\ inflight = NothingInFlight /\ appEv = NoAppEvent
    /\ call = NoCall

\* line 554 with the STOP command
StopTick ==
    /\ agent' = updateMovement(agent, delta, flipCommand(agent, "STOP"))
    /\ UNCHANGED <<action, targetPosition, delta, ev, hitClock, hitGap, above, plan, pc, free,
                   fpIn, fpOut, app, inflight, appEv, call>>

NextStop == StopTick

SpecStop == InitStop /\ [][NextStop]_vars /\ WF_vars(StopTick)

-----------------------------------------------------------------------------
(* Exploring mode over a long run with no target assigned, at a steady     *)
(* frame rate.  SCAN is supplied until Exploring mode activates and one    *)
(* command, the same on every frame, from then on.  plan is the index of   *)
(* that command, pc counts the frames, free the frames taken in Exploring  *)
(* mode.  The render loop calls the frame callback on every animation      *)
(* frame, so a frame that can be taken is eventually taken.                *)

\* number of frames followed after Exploring mode has activated
MaxExploreFrames == 80

\* the command supplied while Exploring mode is active
ExploreCommands == <<"FORWARD", "LEFT", "RIGHT", "STOP", "SCAN", "IDLE">>

InitExplore ==
    /\ agent = AgentInit /\ action = "IDLE" /\ targetPosition = NULL /\ delta \in Deltas
    /\ ev = NoEvents /\ hitClock = NONE /\ hitGap = NONE /\ above = 0
    /\ plan \in 1..Len(ExploreCommands) /\ pc = 0 /\ free = 0
    /\ fpIn = [startX |-> 0, startZ |-> 0, targetSide |-> "south"] /\ fpOut = <<>>
    /\ app = AppInit /\ inflight = NothingInFlight /\ appEv = NoAppEvent
    /\ call = NoCall

ExploreTick ==
    /\ free < MaxExploreFrames
    /\ useFrame(IF agent.explorationMode THEN ExploreCommands[plan] ELSE "SCAN", NULL, delta)
    /\ pc' = pc + 1
    /\ free' = IF agent.explorationMode THEN free + 1 ELSE free

NextExplore == ExploreTick

\* ExploreTick as seen on the frame counter: useFrame is total, so ExploreTick
\* is enabled exactly when free < MaxExploreFrames
ExploreFrameTaken == free < MaxExploreFrames /\ pc' = pc + 1

SpecExplore == InitExplore /\ [][NextExplore]_vars /\ WF_pc(ExploreFrameTaken)

-----------------------------------------------------------------------------
(* A drive into the west boundary wall and a traversal started next to it, *)
(* with stalled frames.  useFrame receives the time since the previous     *)
(* frame from the render clock and does not clamp it, so any frame of a    *)
(* run may last longer than the others.  pc counts the frames of the       *)
(* command program, free the stalled frames.                               *)

\* number of stalled frames in a run
MaxStalls == 1

\* the durations of a stalled frame, in ms
StallDeltas == {500, 750}

\* drive south, turn towards the north west, drive into the west boundary wall,
\* then SCAN with a target assigned until pathfinding activates and completes
StallPlan ==
    Rep(In("FORWARD", NULL, 250), 8) \o Rep(In("LEFT", NULL, 250), 14)
        \o Rep(In("FORWARD", NULL, 250), 32) \o Rep(In("SCAN", RedCube, 250), 58)

InitStall ==
    /\ agent = AgentInit /\ action = "IDLE" /\ targetPosition = NULL /\ delta = 0
    /\ ev = NoEvents /\ hitClock = NONE /\ hitGap = NONE /\ above = 0
    /\ plan = 0 /\ pc = 0 /\ free = 0
    /\ fpIn = [startX |-> 0, startZ |-> 0, targetSide |-> "south"] /\ fpOut = <<>>
    /\ app = AppInit /\ inflight = NothingInFlight /\ appEv = NoAppEvent
    /\ call = NoCall

\* a frame of the command program at its own frame time
SteadyTick ==
    /\ pc < Len(StallPlan)
    /\ useFrame(StallPlan[pc + 1].action, StallPlan[pc + 1].targetPosition, StallPlan[pc + 1].delta)
    /\ pc' = pc + 1
    /\ free' = free

\* a frame of the command program that comes late
StalledTick ==
    /\ pc < Len(StallPlan)
    /\ free < MaxStalls
    /\ \E d \in StallDeltas :
           useFrame(StallPlan[pc + 1].action, StallPlan[pc + 1].targetPosition, d)
    /\ pc' = pc + 1
    /\ free' = free + 1

NextStall == SteadyTick \/ StalledTick

SpecStall == InitStall /\ [][NextStall]_vars

-----------------------------------------------------------------------------
(* A traversal at a steady frame rate, down to 2 frames per second.  SCAN  *)
(* is supplied with a target assigned on every frame; delta holds the      *)
(* frame duration of the run and pc counts the frames.  In this            *)
(* specification free is the trail of the traversal: the agent's refs and  *)
(* pose after each of its last frames, newest first.                       *)

\* number of frames of a run
MaxSlowFrames == 60

\* number of frames the trail looks back
TrailLength == 3

\* frame durations in ms: 8, 4, 2.5 and 2 frames per second
SlowDeltas == {125, 250, 400, 500}

\* what a frame of a traversal with a target assigned reads of the agent: the
\* frame clock and the rotation total are read by the Exploring blocks only
TraversalState(s) == [s EXCEPT !.elapsedTime = 0, !.totalRotation = 0]

InitSlow ==
    /\ agent = AgentInit /\ action = "IDLE" /\ targetPosition = NULL /\ delta \in SlowDeltas
    /\ ev = NoEvents /\ hitClock = NONE /\ hitGap = NONE /\ above = 0
    /\ plan = 0 /\ pc = 0 /\ free = <<>>
    /\ fpIn = [startX |-> 0, startZ |-> 0, targetSide |-> "south"] /\ fpOut = <<>>
    /\ app = AppInit /\ inflight = NothingInFlight /\ appEv = NoAppEvent
    /\ call = NoCall

SlowTick ==
    /\ pc < MaxSlowFrames
    /\ useFrame("SCAN", RedCube, delta)
    /\ pc' = pc + 1
    /\ free' = IF agent'.pathfindingMode
               THEN <<TraversalState(agent')>> \o SubSeq(free, 1, Min(Len(free), TrailLength - 1))
               ELSE <<>>

SpecSlow == InitSlow /\ [][SlowTick]_vars

-----------------------------------------------------------------------------
(* Properties *)

\* C1: at every tick boundary at most one of the pathfinding-mode flag and the
\* exploration-mode flag is set.
C1_ModeExclusive == ~(agent.pathfindingMode /\ agent.explorationMode)

\* C2: pathfinding mode switches from off to on in a tick only if the scan accumulator
\* is above 2 pi in that tick and a target position is assigned in that tick.
C2_ActivationNeedsScanAndTarget ==
    [][(~agent.pathfindingMode /\ agent'.pathfindingMode)
          => (agent.scanRotation > TWO_PI /\ targetPosition' # NULL)]_vars

\* a frame has switched pathfinding on, with the target it was given
C2_Witness == ev.activated /\ agent.pathfindingMode /\ targetPosition # NULL

\* C3: a frame of waypoint following whose position after the move satisfies
\* checkCollisions ends with pathfinding off and both velocities 0, whatever the
\* collision cooldown was when pathfinding started.
C3_CollisionAbortsPathfinding ==
    (ev.kind = "path" /\ checkCollisions(agent.posX, agent.posZ))
        => (~agent.pathfindingMode /\ agent.velocity = 0 /\ agent.rotationVelocity = 0)

\* C4: after a collision is registered, by either check, the next one is registered
\* no sooner than 1000 ms of frame time later.
C4_CollisionsOneSecondApart == hitGap = NONE \/ hitGap >= 1000

\* a second collision has been registered exactly when the cooldown allowed it
C4_Witness == ev.registered /\ hitGap = 1000

\* C5: the depth coordinate z changes sign between two consecutive frames only while
\* the lateral coordinate is inside the gap, |x| < 3.
C5_CrossesOnlyInGap ==
    [][(agent.posZ * agent'.posZ < 0)
          => (Abs(agent.posX) < gapHalfWidth \/ Abs(agent'.posX) < gapHalfWidth)]_vars

\* C6: at the end of the frame in which a traversal completes, or is aborted by a
\* collision, the scan accumulator is 0.
C6_ScanZeroAfterTraversal ==
    (ev.completed \/ (ev.kind = "path" /\ ~agent.pathfindingMode))
        => agent.scanRotation = 0

\* C7 as stated: the scan accumulator does not stay above 2 pi for more than one
\* frame without a mode transition (above counts the frames in a row that ended with
\* the accumulator above 2 pi and fired no activation).
C7_Original == above <= 2

\* C7: while a target is assigned the scan accumulator does not stay above 2 pi: a
\* frame that starts with it above 2 pi and is given a target activates pathfinding
\* and ends with it at most 2 pi.
C7_TransitionWithTarget ==
    [][(agent.scanRotation > TWO_PI /\ targetPosition' # NULL)
          => (ev'.activated /\ agent'.scanRotation <= TWO_PI)]_vars

\* an activation has reset the accumulator after a scan of more than 2 pi
C7_Witness == ev.activated /\ agent.scanRotation = 0 /\ agent.currentPath # <<>>

\* C8 as stated: across two consecutive frames whose command is SCAN the scan
\* accumulator does not decrease.
C8_Original ==
    [][(action = "SCAN" /\ action' = "SCAN")
          => agent'.scanRotation >= agent.scanRotation]_vars

\* C8: across two consecutive frames whose command is SCAN the scan accumulator does
\* not decrease, except in the frame that activates pathfinding, which resets it.
C8_NonDecreasingExceptActivation ==
    [][(action = "SCAN" /\ action' = "SCAN" /\ ~ev'.activated)
          => agent'.scanRotation >= agent.scanRotation]_vars

\* the accumulator has grown over several SCAN frames in a row
C8_Witness == action = "SCAN" /\ ~ev.activated /\ agent.scanRotation > 1000

\* the waypoints of path on the dividing line, from index first on
OnDividingLine(path, first) == {i \in first..Len(path) : path[i][2] = 0}

\* the final waypoint lies strictly on side, inside the safe boundary
FinalOnSide(path, side) ==
    LET last == path[Len(path)]
    IN  /\ IF side = "north" THEN last[2] > 0 ELSE last[2] < 0
        /\ Abs(last[1]) <= 12000
        /\ Abs(last[2]) <= 12000

\* findPathThroughGap has been called towards the half opposite to the start
Crossing == fpOut # <<>> /\ fpIn.targetSide # determineAgentSide(fpIn.startZ)

\* C9 as stated: the path towards the opposite half has exactly one waypoint on z = 0,
\* the gap centre, and ends strictly on the opposite half with |x| <= 12, |z| <= 12.
C9_Original ==
    Crossing =>
        /\ Cardinality(OnDividingLine(fpOut, 1)) = 1
        /\ \A i \in OnDividingLine(fpOut, 1) : fpOut[i] = <<0, 0>>
        /\ FinalOnSide(fpOut, fpIn.targetSide)

\* C9: the path towards the opposite half has, after its first waypoint (the start
\* itself), exactly one waypoint on z = 0, the gap centre, and ends strictly on the
\* opposite half with |x| <= 12, |z| <= 12.
C9_OneCrossingAfterStart ==
    Crossing =>
        /\ Cardinality(OnDividingLine(fpOut, 2)) = 1
        /\ \A i \in OnDividingLine(fpOut, 2) : fpOut[i] = <<0, 0>>
        /\ FinalOnSide(fpOut, fpIn.targetSide)

\* a path computed from a start on the dividing line, outside the safe boundary
C9_Witness ==
    Crossing /\ fpIn.startZ = 0 /\ Abs(fpIn.startX) > BOUNDARY /\ Len(fpOut) = 7

\* number of intervals a leg is cut into to test the points along it
SegSamples == 20

\* the point k/SegSamples of the way from a to b
PointOnLeg(a, b, k) ==
    << a[1] + RoundDiv((b[1] - a[1]) * k, SegSamples),
       a[2] + RoundDiv((b[2] - a[2]) * k, SegSamples) >>

\* p is inside the collision band of the dividing wall at a solid lateral position
InSolidBand(p) == Abs(p[2]) < AGENT_RADIUS + wallHalfThickness /\ checkCollisions(p[1], p[2])

\* C10: every waypoint and every leg of the path computed at an activation meets the
\* collision band of the dividing wall only inside the gap.
C10_PathAvoidsSolidBand ==
    ev.activated =>
        \A i \in 1..(Len(agent.currentPath) - 1) : \A k \in 0..SegSamples :
            ~InSolidBand(PointOnLeg(agent.currentPath[i], agent.currentPath[i + 1], k))

\* C11: in every reachable state 0 <= waypoint index <= length of the current path,
\* and pathfinding mode is on at a tick boundary only while index < length.
C11_IndexWithinPath ==
    /\ 0 <= agent.currentPathIndex
    /\ agent.currentPathIndex <= Len(agent.currentPath)
    /\ agent.pathfindingMode => agent.currentPathIndex < Len(agent.currentPath)

\* a traversal has completed with the index at the length of its path
C11_Witness ==
    /\ ev.completed
    /\ ~agent.pathfindingMode
    /\ Len(agent.currentPath) = 7
    /\ agent.currentPathIndex = Len(agent.currentPath)

\* C12: at most one vision request is outstanding at any time, and a capture
\* callback invoked while a request is pending or while the simulation is not
\* running starts no request.
C12_OneRequestOutstanding ==
    /\ Len(inflight.requests) <= 1
    /\ app.isProcessingRef <=> Len(inflight.requests) = 1
    /\ appEv.op = "capture" /\ (appEv.before.isProcessingRef \/ ~appEv.before.isRunning)
           => ~appEv.started /\ Len(inflight.requests) = appEv.before.requests

\* a capture callback has just been turned away because a request is pending
C12_Witness ==
    /\ appEv.op = "capture" /\ ~appEv.started
    /\ appEv.before.isRunning /\ Len(inflight.requests) = 1

\* C13: a vision result that resolves after the simulation was stopped, or after
\* the mission or the selected target changed, does not change the agent's
\* action and schedules no step advance.
C13_StaleResultNotApplied ==
    appEv.op = "resolve" /\ appEv.stale
        => /\ app.agentAction = appEv.before.agentAction
           /\ ~appEv.scheduled

\* the last handler was the arrival of a vision result and it set a timer for
\* handleNextStep
AdvanceTriggered == appEv.op = "resolve" /\ Len(inflight.timers) > appEv.before.timers

\* C14: a vision result triggers a mission step advance only if its action is
\* STOP, targetVisible is true, its confidence is strictly greater than 0.8 and
\* the target of the current step (of the mission the handler was created with)
\* is the selected target; a well-formed result of confidence 0.5, 0.7 or
\* exactly 0.8 triggers none, one of confidence 0.85 that meets the other
\* conditions triggers one.
C14_AdvanceOnlyAboveThreshold ==
    /\ AdvanceTriggered
           => /\ appEv.result.action = "STOP"
              /\ appEv.result.targetVisible
              /\ appEv.result.confidence > CONFIDENCE_THRESHOLD
              /\ appEv.seen.currentMission.status # "null"
              /\ currentStepTarget(appEv.seen.currentMission) = appEv.seen.selectedTarget
    /\ appEv.op = "resolve" /\ appEv.result.confidence \in {500, 700, 800} => ~AdvanceTriggered
    /\ (/\ appEv.op = "resolve"
        /\ appEv.result = [action |-> "STOP", targetVisible |-> TRUE, confidence |-> 850, distance |-> "number"]
        /\ appEv.seen.currentMission.status # "null"
        /\ currentStepTarget(appEv.seen.currentMission) = appEv.seen.selectedTarget)
           => AdvanceTriggered

\* a STOP result of confidence 0.85 on the target of the current step has set the timer
C14_Witness ==
    /\ AdvanceTriggered
    /\ appEv.result.confidence = 850
    /\ Len(inflight.timers) = 1

\* the last handler was a step advance, fired on mission m
AdvanceFired == appEv.op = "advance" /\ appEv.seen.currentMission.status # "null"

C15_WitnessCompleted ==
    /\ AdvanceFired
    /\ app.currentMission.status = "completed"
    /\ app.currentMission.current_step = 1
    /\ ~app.isRunning

\* C16: after every tick the forward velocity v satisfies 0 <= v <= the maximum
\* speed of the current mode: 7.5 while pathfinding is active, 2.5 otherwise.
C16_VelocityWithinModeMax ==
    /\ 0 <= agent.velocity
    /\ agent.velocity <= IF agent.pathfindingMode THEN MAX_SPEED_PATHFINDING ELSE MAX_SPEED_NORMAL

\* C17: after every tick the angular velocity w satisfies |w| <= 0.81 rad/s,
\* the SCAN rate.
C17_AngularVelocityWithinMax == Abs(agent.rotationVelocity) <= SCAN_ROT_SPEED

\* C18: getNavCommand never rejects, and when every endpoint it tries fails
\* (network error, non-success status, malformed payload on the stereo and on
\* the monocular endpoint) it resolves to a response whose action is SCAN and
\* whose targetVisible is false, with a reason string.
C18_FailureResolvesToScan ==
    call.fn = "getNavCommand" /\ call.done /\ FetchFailed(call.stereo) /\ FetchFailed(call.mono)
        => /\ call.out.action = "SCAN"
           /\ call.out.targetVisible = "false"
           /\ call.out.reasoning # "undefined"

\* the keywords that select each target in the fallback
KeywordsOf(target) ==
    CASE target = "Pink Sphere" -> {"sphere", "pink"}
      [] target = "Red Cube" -> {"cube", "red", "square"}
      [] target = "Green Cone" -> {"cone", "green"}
      [] target = "Yellow Cylinder" -> {"cylinder", "yellow"}
      [] target = "Skeleton Head" -> {"skeleton", "skull", "head", "bone"}

TextHasKeyword(text) == \E w \in text : KeywordsIn[w] # {}

\* C19: when the remote mission-parsing call fails, parseMission does not reject
\* and returns the keyword-matched mission with status pending and current_step
\* 0; when no keyword matches and the list of available targets is non-empty,
\* that mission has exactly one step, whose target is the first available target.
C19_FallbackMission ==
    call.fn = "parseMission" /\ call.done /\ call.llm.kind \in LLMFailures
        => /\ ~call.out.rejected
           /\ call.out.status = "pending"
           /\ call.out.current_step = 0
           /\ TextHasKeyword(call.text)
                  => \A i \in 1..Len(TARGET_OPTIONS) :
                         (\E j \in 1..Len(call.out.steps) : call.out.steps[j] = TARGET_OPTIONS[i])
                             <=> \E w \in call.text : KeywordsIn[w] \cap KeywordsOf(TARGET_OPTIONS[i]) # {}
           /\ ~TextHasKeyword(call.text) /\ Len(call.availableTargets) > 0
                  => call.out.steps = <<call.availableTargets[1]>>

\* the remote call failed, the text holds no keyword and the fallback chose the
\* first of the five available targets
C19_Witness ==
    /\ call.fn = "parseMission" /\ call.done
    /\ call.llm.kind = "network"
    /\ call.text = {"go", "wall"}
    /\ call.availableTargets = TARGET_OPTIONS
    /\ call.out.steps = <<"Red Cube">>

\* C20: with no target assigned and a continuous stream of SCAN commands from
\* rest at (0,0) heading 0, Exploring mode eventually activates; it is off as
\* long as the accumulated total rotation has not exceeded 2 pi and on only
\* after the agent has turned by more than 2 pi.
C20_ScanLeadsToExploring ==
    /\ <>agent.explorationMode
    /\ [](~agent.explorationMode => agent.totalRotation <= TWO_PI)
    /\ [](agent.explorationMode => agent.lastRotationAngle > TWO_PI)

\* the frame in which Exploring mode has activated
C20_Witness ==
    /\ ev.explored /\ agent.explorationMode
    /\ action = "SCAN" /\ targetPosition = NULL
    /\ agent.rotY > TWO_PI
    /\ pc > 32

\* C21: at the end of every tick in which a target position is assigned, the
\* exploration-mode flag is off, whatever the other mode flags are.
C21_TargetEndsExploring ==
    (ev.kind # "none" /\ targetPosition # NULL) => ~agent.explorationMode

\* a frame given no target that starts in Exploring mode with pathfinding off:
\* neither activation fires and the frame runs lines 486-582
exploringFrame(s, act, d) ==
    normalStep(trackRotation([s EXCEPT !.elapsedTime = @ + d]), act, NULL, d, normalizedDelta(s))

Motion(s) == <<s.velocity, s.rotationVelocity, s.posX, s.posZ, s.rotY>>

\* exploringFrame is the frame of useFrame in these states
ExploringFrameIsUseFrame ==
    [][agent.explorationMode /\ ~agent.pathfindingMode /\ targetPosition' = NULL
          => agent' = exploringFrame(agent, action', delta')]_vars

\* C22: while Exploring is active the mode output overrides the supplied command:
\* two frames from the same state that differ only in the supplied command use
\* the same forward and angular velocity and end in the same pose.
C22_ExploringIgnoresCommand ==
    agent.explorationMode /\ ~agent.pathfindingMode
        => \A d \in Deltas : \A a1, a2 \in ActionType :
               Motion(exploringFrame(agent, a1, d)) = Motion(exploringFrame(agent, a2, d))

\* the frame of useFrame up to and including the pathfinding activation
activation(s, tp, d) == startPathfinding(trackRotation([s EXCEPT !.elapsedTime = @ + d]), tp)

\* C23: the path computed at pathfinding activation commits to the half opposite
\* to the agent's half regardless of where the target is: activations from the
\* same state with the target on either half compute the same waypoint list, and
\* the final waypoint of a computed path lies on the half opposite to the
\* agent's half at activation.
C23_PathIgnoresTargetSide ==
    /\ [](\A d \in Deltas :
             (agent.scanRotation > TWO_PI /\ ~agent.pathfindingMode)
                 => /\ activation(agent, RedCube, d).pathfindingMode
                    /\ activation(agent, GreenCone, d).pathfindingMode
                    /\ activation(agent, RedCube, d).currentPath = activation(agent, GreenCone, d).currentPath)
    /\ [][ev'.activated =>
               \E last \in {agent'.currentPath[Len(agent'.currentPath)]} :
                   determineAgentSide(last[2]) # determineAgentSide(agent.posZ)]_vars

\* pathfinding has activated in the north half with a target that is in the north
\* half too, and the path ends in the south half
C23_Witness ==
    /\ ev.activated /\ agent.pathfindingMode
    /\ targetPosition = RedCube
    /\ agent.currentPath[1][2] >= 0
    /\ agent.currentPath[Len(agent.currentPath)][2] < 0

\* C24: the rear-view flag is false at the end of every tick, in particular
\* after every registered collision and after every pathfinding activation.
C24_FrontViewKept == ~agent.useRearView

\* a collision has just been registered by the normal check and the view is
\* still the front view
C24_Witness == ev.registered /\ ev.kind = "normal" /\ agent.collisionDetected /\ ~agent.useRearView

\* the displacement of a frame measured along the heading the frame ends with:
\* translateZ moves along (sin rotY, cos rotY) and forward is the negative z axis
forwardDisplacement(s, t) ==
    0 - ((t.posX - s.posX) * Sin(t.rotY) + (t.posZ - s.posZ) * Cos(t.rotY))

\* C25: in a frame outside waypoint following that registers a wall collision,
\* the displacement applied to the agent is directed backward relative to its
\* heading, not forward.
C25_CollisionRetreats ==
    [][(ev'.registered /\ ev'.kind = "normal") => forwardDisplacement(agent, agent') <= 0]_vars

\* C26: with STOP applied on every tick from a forward velocity v >= 0, the
\* velocity never increases, is never negative, and is eventually exactly 0.
C26_StopReachesZero ==
    /\ [](agent.velocity >= 0)
    /\ [][agent'.velocity <= agent.velocity]_vars
    /\ <>(agent.velocity = 0)

\* a frame that starts in Reactive mode and is given a target
ReactiveWithTarget == ~agent.pathfindingMode /\ ~agent.explorationMode /\ targetPosition' # NULL

\* C27 as stated: a frame that starts in Reactive mode with the scan accumulator
\* at or above 2 pi and is given a target activates pathfinding.
C27_Original ==
    [][(ReactiveWithTarget /\ agent.scanRotation >= TWO_PI) => ev'.activated]_vars

\* C27: a frame that starts in Reactive mode with the scan accumulator strictly
\* above 2 pi and is given a target activates pathfinding; with the accumulator at
\* 2 pi exactly it does not.
C27_ActivationAboveTwoPi ==
    [][/\ (ReactiveWithTarget /\ agent.scanRotation > TWO_PI)
            => (ev'.activated /\ agent'.currentPath # <<>>)
       /\ (ReactiveWithTarget /\ agent.scanRotation = TWO_PI) => ~ev'.activated]_vars

\* the SCAN run that passed through 2 pi exactly has activated pathfinding one
\* frame later
C27_Witness == plan = 6 /\ free = 0 /\ pc = 44 /\ ev.activated /\ agent.pathfindingMode

\* C28: a frame that starts with pathfinding on, or switches it on, ends with it
\* off only if the waypoint index has reached the end of the path or the frame
\* has registered a collision during waypoint following, whatever command and
\* target it is given; a frame that starts with pathfinding on leaves the
\* waypoint list as it was.
C28_PathfindingLeftOnlyAtEndOrCollision ==
    [][/\ (agent.pathfindingMode \/ ev'.activated) /\ ~agent'.pathfindingMode
            => \/ ev'.completed /\ agent'.currentPathIndex >= Len(agent'.currentPath)
               \/ ev'.kind = "path" /\ ev'.registered
       /\ agent.pathfindingMode => agent'.currentPath = agent.currentPath]_vars

\* a frame given STOP and no target in the middle of a traversal has left
\* pathfinding on
C28_Witness ==
    /\ free = 1 /\ action = "STOP" /\ targetPosition = NULL
    /\ ev.kind = "path" /\ agent.pathfindingMode
    /\ agent.currentPathIndex >= 2

\* the time a phase of exploration has to last before it ends, in ms
phaseDuration(phase) == IF phase = 0 THEN 3000 ELSE 1200

\* a frame taken in Exploring mode with pathfinding off and no target
ExploringFrame == agent.explorationMode /\ ~agent.pathfindingMode /\ targetPosition' = NULL

\* a budget of frames in which the running phase is over at any frame time
FramesLeftFor(phase) ==
    free + phaseDuration(phase) \div 125 + 2 <= MaxExploreFrames

\* C29: while Exploring is active with no target and pathfinding off, the phase
\* is 0 or 1 and a frame changes it only to the other one; the phase begins
\* when Exploring activates (phase 0) and at every change; the forward phase
\* ends only more than 3000 ms after it began and the turn phase only more than
\* 1200 ms after it began; and a phase that has frames left to run does end.
C29_PhasesAlternate ==
    /\ [][ExploringFrame
            => /\ agent.explorationPhase \in {0, 1}
               /\ agent'.explorationPhase # agent.explorationPhase
                    => /\ agent'.explorationPhase = 1 - agent.explorationPhase
                       /\ agent'.elapsedTime - agent.explorationStartTime
                              > phaseDuration(agent.explorationPhase)
                       /\ agent'.explorationStartTime = agent'.elapsedTime
               /\ agent'.explorationPhase = agent.explorationPhase
                    => agent'.explorationStartTime = agent.explorationStartTime]_vars
    /\ [][ev'.explored
            => /\ agent'.explorationPhase = 0
               /\ agent'.explorationStartTime = agent'.elapsedTime]_vars
    /\ \A phase \in {0, 1} :
           (agent.explorationMode /\ agent.explorationPhase = phase /\ FramesLeftFor(phase))
               ~> (agent.explorationPhase = 1 - phase)

\* the third turn phase of a run at 4 frames per second
C29_Witness ==
    /\ agent.explorationMode /\ ~agent.pathfindingMode /\ targetPosition = NULL
    /\ agent.explorationPhase = 1
    /\ delta = 250 /\ free >= 45

\* every coordinate of the waypoints of path from index first on is within the
\* safe boundary
InsideBoundary(path, first) ==
    \A i \in first..Len(path) : Abs(path[i][1]) <= BOUNDARY /\ Abs(path[i][2]) <= BOUNDARY

\* C30 as stated: every coordinate of every waypoint of a computed path lies
\* within [-12, 12], for every start with |x| <= 13.6 and |z| <= 13.6.
C30_Original == fpOut # <<>> => InsideBoundary(fpOut, 1)

\* C30: the first waypoint of a computed path is the start position itself, and
\* every coordinate of every later waypoint lies within [-12, 12], for every
\* start with |x| <= 13.6 and |z| <= 13.6.
C30_WaypointsAfterStartInside ==
    fpOut # <<>> =>
        /\ fpOut[1] = <<fpIn.startX, fpIn.startZ>>
        /\ InsideBoundary(fpOut, 2)

\* a path computed from the corner of the area the soft boundary keeps the agent
\* in, whose last waypoint has been clamped
C30_Witness ==
    /\ fpIn.startX = 13600 /\ fpIn.startZ = 13600 /\ fpIn.targetSide = "south"
    /\ Len(fpOut) = 7
    /\ fpOut[7] = <<BOUNDARY, -10000>>

\* the seven waypoints of six fixed legs from a start (x, z)
sixLegs(x, z) ==
    LET s == IF z >= 0 THEN 1 ELSE -1
    IN  << <<x, z>>, <<0, s * 5000>>, <<0, s * 2000>>, <<0, 0>>, <<0, -s * 2000>>,
           <<0, -s * 8000>>, <<clamp(x, -BOUNDARY, BOUNDARY), -s * 10000>> >>

\* C31: the path computed at a pathfinding activation is the seven-waypoint list
\* start, (0, 5s), (0, 2s), (0, 0), (0, -2s), (0, -8s), (clamp(startX), -10s) with
\* s = +1 for a start with z >= 0 and -1 otherwise; the two-waypoint branch is
\* never taken.
C31_SixFixedLegs ==
    [][ev'.activated => agent'.currentPath = sixLegs(agent.posX, agent.posZ)]_vars

\* a path of six legs computed away from the construction position, towards the
\* half the target is not in
C31_Witness ==
    /\ ev.activated /\ Len(agent.currentPath) = 7
    /\ agent.currentPath[1] # <<0, 0>>
    /\ agent.currentPath[2] = <<0, 5000>>
    /\ targetPosition # NULL /\ targetPosition[3] >= 0

\* C32: after every tick the agent's position is inside the maze boundary,
\* |x| <= 13.6 and |z| <= 13.6, in ticks of waypoint following too.
C32_InsideMaze ==
    /\ Abs(agent.posX) <= boundary - AGENT_RADIUS
    /\ Abs(agent.posZ) <= boundary - AGENT_RADIUS

\* the position of the agent
Position(s) == <<s.posX, s.posZ>>

\* C33 as stated, by what the order of the steps leaves behind: in a tick that
\* registers a collision no mode has been activated before the check (the check
\* is the one of the mode the tick began in) and the position has not been
\* updated before the check (the check of waypoint following zeroes the
\* velocity, so the tick then moves nothing).
C33_Original ==
    [][ev'.registered
          => /\ ~ev'.activated
             /\ ev'.kind = "path" => Position(agent') = Position(agent)]_vars

\* C33: mode arbitration comes first in every tick: a tick that activates
\* pathfinding already follows waypoints.  Outside waypoint following the
\* collision check comes before the movement and the boundary clamp last: a
\* registered collision is one of the position the tick began with, and the tick
\* ends inside the clamp range.  In a tick of waypoint following the position is
\* updated before the collision check: a registered collision is one of the
\* position after the move, and the move has been made although the check
\* leaves the velocity at 0.
C33_ArbitrationMoveCheck ==
    [][/\ ev'.activated => (ev'.kind = "path" \/ ev'.completed)
       /\ ev'.kind = "normal"
            => /\ ev'.registered => checkCollisions(agent.posX, agent.posZ)
               /\ Abs(agent'.posX) <= boundary - AGENT_RADIUS
               /\ Abs(agent'.posZ) <= boundary - AGENT_RADIUS
       /\ (ev'.kind = "path" /\ ev'.registered)
            => /\ checkCollisions(agent'.posX, agent'.posZ)
               /\ agent'.velocity = 0
               /\ agent.velocity >= 100 => Position(agent') # Position(agent)]_vars

\* a tick has activated pathfinding, moved the agent and then registered a
\* collision that ended the traversal
C33_Witness ==
    /\ ev.activated /\ ev.kind = "path" /\ ev.registered
    /\ ~agent.pathfindingMode /\ agent.velocity = 0
    /\ agent.currentPath # <<>> /\ Position(agent) # agent.currentPath[1]

\* C34: the step index of a mission with at least one step satisfies
\* 0 <= current_step < steps.length, and it never decreases while vision
\* results, advance timers and start/stop clicks interleave.
C34_StepIndexMonotone ==
    /\ [](app.currentMission.status # "null"
            => /\ Len(app.currentMission.steps) >= 1
               /\ 0 <= app.currentMission.current_step
               /\ app.currentMission.current_step < Len(app.currentMission.steps))
    /\ [][(app.currentMission.status # "null" /\ app'.currentMission.status # "null")
            => /\ app'.currentMission.steps = app.currentMission.steps
               /\ app'.currentMission.current_step >= app.currentMission.current_step]_vars

\* a timer scheduled before the simulation was stopped has advanced a mission
\* of three steps to its last step
C34_Witness ==
    /\ appEv.op = "advance" /\ appEv.stale
    /\ Len(app.currentMission.steps) = 3
    /\ app.currentMission.current_step = 2
    /\ appEv.seen.currentMission.current_step = 1

\* C35: every step target of a mission returned by parseMission is a member of
\* the list of valid target names passed in, for the steps of the remote reply
\* and for those of the keyword fallback.
C35_StepTargetsValid ==
    call.fn = "parseMission" /\ call.done
        => \A j \in 1..Len(call.out.steps) :
               \E i \in 1..Len(call.availableTargets) : call.out.steps[j] = call.availableTargets[i]

\* C36: a delayed step advance never modifies a mission set after the advance
\* was scheduled: while the current mission is a newly parsed one (pending, no
\* step of it reached yet), a timer that expires holding another mission leaves
\* the current mission and the selected target as they are.
C36_TimerLeavesNewMission ==
    [][(/\ appEv'.op = "advance"
        /\ app.currentMission.status = "pending"
        /\ appEv'.seen.currentMission # app.currentMission)
          => /\ app'.currentMission = app.currentMission
             /\ app'.selectedTarget = app.selectedTarget]_vars

\* C37: pathfinding always ends: after an activation it is eventually off.  The
\* frame callback is a function of the agent's refs and pose, the props and the
\* frame duration, so a traversal that ends is never again in a state of motion
\* it was in one or two frames before.
C37_TraversalNeverRepeats ==
    agent.pathfindingMode
        => \A i, j \in 1..Len(free) : i # j => free[i] # free[j]

\* C38: the in-flight flag is always released: the continuation of every vision
\* request, on success and on failure, leaves the flag false; a flag that is
\* set is eventually clear again; and a capture callback that runs while the
\* simulation is running and the flag is clear starts a new request.
C38_FlagReleased ==
    /\ [][appEv'.op = "resolve" => ~app'.isProcessingRef]_vars
    /\ (app.isProcessingRef ~> ~app.isProcessingRef)
    /\ [][(appEv'.op = "capture" /\ app.isRunning /\ ~app.isProcessingRef) => appEv'.started]_vars

\* a request whose continuation threw has released the flag while the simulation
\* is running, so that the next capture can start a request
C38_Witness ==
    /\ appEv.op = "resolve"
    /\ loggingThrows(appEv.result)
    /\ appEv.before.isProcessingRef
    /\ app.isRunning
    /\ ~app.isProcessingRef

====
